---- MODULE Spec2Model ----
(***************************************************************************)
(* A model of job_matcher/utils/job_scraper.py (class JobScraper): the     *)
(* JSON cache file (_save_to_cache, _load_from_cache), the paged retrieval *)
(* (scrape_indeed, scrape_jobs), the per-card field extraction and the     *)
(* on-demand description (get_full_description); and of                    *)
(* job_matcher/utils/job_matcher.py (class JobMatcher): the similarity,    *)
(* the component scores and their reasons, the weighted sum, the ranking.  *)
(*                                                                         *)
(* Text is modelled as a sequence of symbols (one-character strings, or a  *)
(* whole word standing for a run of non-blank characters), so that lower,  *)
(* replace, strip and startswith are computed and not assumed.             *)
(***************************************************************************)
EXTENDS Integers, Sequences, FiniteSets, TLC

VARIABLES
    cache_dir,    \* JobScraper.cache_dir is set (a cache directory was given)
    cache_file,   \* what <cache_dir>/job_cache.json holds on disk
    clock,        \* datetime.now(), in hours
    op,           \* the last _load_from_cache / _save_to_cache call and its outcome
                  \* (replaced: 0, or 1 + the number of jobs of the store it superseded)
    stored,       \* per cache key: the arguments of the last _save_to_cache that returned
    pc,           \* where the running scrape_jobs call stands
    call,         \* the running (or last) scrape_jobs call: arguments, locals (page,
                  \* jobs), outcome (out), and what it did: events (the requests and
                  \* sleeps in order), path (hit or miss), writes (cache writes), saved
                  \* (time of the write), start (time of the call)
    prev,         \* the scrape_jobs call that completed before it (arguments, outcome)
    calls,        \* number of scrape_jobs calls made
    card,         \* a job card of a result page (field extraction)
    job,          \* the job dict built from it
    procs,        \* concurrent calls: two _save_to_cache and one _load_from_cache,
                  \* each with its arguments, position (pc) and locals
    disk,         \* the bytes of job_cache.json, as the sequence of the chunks written
    enrich,       \* the get_full_description calls made on the listing `job`: their
                  \* number, the URLs requested, and the last call (the listing
                  \* before it, what its request did, what it returned)
    matcher       \* JobMatcher: the inputs of rank_jobs_for_resume, its result, and
                  \* the texts handed to the embedding model

vars == <<cache_dir, cache_file, clock, op, stored, pc, call, prev, calls,
          card, job, procs, disk, enrich, matcher>>

(***************************************************************************)
(* Bounds of the model.                                                    *)
(***************************************************************************)
MaxClock == 36
TickHours == 12
MaxCalls == 2
MaxPages == 2
MaxEnrich == 4
MaxJobs == 2
MaxRank == 2

(***************************************************************************)
(* Text helpers: str.lower, str.replace, str.strip, str.startswith.        *)
(***************************************************************************)
Whitespace == {" ", "\t"}

LowerChar(c) ==
    CASE c = "A" -> "a"
      [] c = "B" -> "b"
      [] c = "C" -> "c"
      [] c = "I" -> "i"
      [] OTHER -> c

lower(s) == [i \in 1..Len(s) |-> LowerChar(s[i])]

replace(s, old, new) == [i \in 1..Len(s) |-> IF s[i] = old THEN new ELSE s[i]]

RECURSIVE lstrip(_)
lstrip(s) ==
    IF s = <<>> THEN <<>>
    ELSE IF Head(s) \in Whitespace THEN lstrip(Tail(s)) ELSE s

RECURSIVE rstrip(_)
rstrip(s) ==
    IF s = <<>> THEN <<>>
    ELSE IF s[Len(s)] \in Whitespace THEN rstrip(SubSeq(s, 1, Len(s) - 1)) ELSE s

strip(s) == rstrip(lstrip(s))

startswith(s, c) == Len(s) > 0 /\ s[1] = c

(***************************************************************************)
(* The cache key: f"{query}_{location}".lower().replace(' ', '_').         *)
(***************************************************************************)
\* a variant of the key that keeps the letter case
cache_key_mut_nolower(query, location) ==
    replace(query \o <<"_">> \o location, " ", "_")

cache_key(query, location) ==
    replace(lower(query \o <<"_">> \o location), " ", "_")

(***************************************************************************)
(* Field extraction from one job card (scrape_indeed, the body of          *)
(* `for job_card in job_cards`).  A card is what job_card.select_one       *)
(* returns for each selector of each field, in the order the code tries    *)
(* them: an element (found) with its text, or no element.  A bs4 Tag is    *)
(* truthy whatever its contents, so `a or b or c` is the first element     *)
(* found.                                                                  *)
(***************************************************************************)
NoElem == [found |-> FALSE, text |-> <<>>, span |-> FALSE, spantext |-> <<>>]
Elem(t) == [found |-> TRUE, text |-> t, span |-> FALSE, spantext |-> <<>>]
SpanElem(t, st) == [found |-> TRUE, text |-> t \o st, span |-> TRUE, spantext |-> st]

NoLink == [found |-> FALSE, hasHref |-> FALSE, href |-> <<>>]
Link(h) == [found |-> TRUE, hasHref |-> TRUE, href |-> h]
Anchor == [found |-> TRUE, hasHref |-> FALSE, href |-> <<>>]

\* select_one(s1) or select_one(s2) or ...: the first element found, else None
RECURSIVE select_first(_, _)
select_first(chain, none) ==
    IF chain = <<>> THEN none
    ELSE IF Head(chain).found THEN Head(chain) ELSE select_first(Tail(chain), none)

DefaultTitle == <<"Unknown Position">>
DefaultCompany == <<"Unknown Company">>
DefaultLocation == <<"Unknown Location">>
DefaultSalary == <<"Not specified">>
IndeedOrigin == <<"https://www.indeed.com">>

extract_title(chain) ==
    LET title_elem == select_first(chain, NoElem)
    IN  IF title_elem.found
        THEN IF title_elem.span THEN strip(title_elem.spantext)
             ELSE strip(title_elem.text)
        ELSE DefaultTitle

\* x_elem.text.strip() if x_elem else default
extract_text(chain, default) ==
    LET elem == select_first(chain, NoElem)
    IN  IF elem.found THEN strip(elem.text) ELSE default

extract_url(chain) ==
    LET link_elem == select_first(chain, NoLink)
    IN  IF link_elem.found /\ link_elem.hasHref
        THEN IF startswith(link_elem.href, "/")
             THEN IndeedOrigin \o link_elem.href
             ELSE link_elem.href
        ELSE <<>>

\* the job dict appended to `jobs` for one card
extract_job(c, query) ==
    [title |-> extract_title(c.title),
     company |-> extract_text(c.company, DefaultCompany),
     location |-> extract_text(c.location, DefaultLocation),
     url |-> extract_url(c.link),
     date_posted |-> extract_text(c.date, <<>>),
     snippet |-> extract_text(c.snippet, <<>>),
     salary |-> extract_text(c.salary, DefaultSalary),
     source |-> "Indeed",
     query |-> query,
     full_description |-> <<>>]

RECURSIVE extract_jobs(_, _)
extract_jobs(cards, query) ==
    IF cards = <<>> THEN <<>>
    ELSE <<extract_job(Head(cards), query)>> \o extract_jobs(Tail(cards), query)

\* The cards the extraction is checked on.
TitleElems == {NoElem, Elem(<<" ", "Dev">>), SpanElem(<<"new">>, <<>>)}
TextElems == {NoElem, Elem(<<"\t">>), Elem(<<"Acme", " ">>)}
TitleChains == [1..4 -> TitleElems]
TextChains == [1..3 -> TextElems]
LinkChains == {<<NoLink, NoLink, NoLink>>, <<Anchor, Link(<<"/", "rc">>), NoLink>>,
               <<NoLink, NoLink, Link(<<"http://x">>)>>}
NoChain == <<NoElem, NoElem, NoElem>>
LocationChains ==
    {NoChain, <<NoElem, Elem(<<" ">>), Elem(<<"Remote">>)>>,
     <<NoElem, NoElem, Elem(<<"\t", "Remote">>)>>}
Cards ==
    [title : TitleChains, company : TextChains, location : LocationChains,
     link : LinkChains, date : {NoChain},
     snippet : {<<NoElem, Elem(<<"sql">>), NoElem>>}, salary : {NoChain}]

\* Two cards of the result pages of the retrieval model: a complete one and
\* one that matches no selector at all.
CardFull ==
    [title |-> <<SpanElem(<<>>, <<"Dev">>), NoElem, NoElem, NoElem>>,
     company |-> <<Elem(<<"Acme">>), NoElem, NoElem>>,
     location |-> <<NoElem, Elem(<<"Remote">>), NoElem>>,
     link |-> <<Link(<<"/", "rc">>), NoLink, NoLink>>,
     date |-> NoChain,
     snippet |-> <<Elem(<<"sql">>), NoElem, NoElem>>,
     salary |-> NoChain]
CardBare ==
    [title |-> <<NoElem, NoElem, NoElem, NoElem>>,
     company |-> NoChain, location |-> NoChain,
     link |-> <<NoLink, NoLink, NoLink>>,
     date |-> NoChain, snippet |-> NoChain, salary |-> NoChain]
NoCard == CardBare
NoJob == extract_job(CardBare, <<>>)

(***************************************************************************)
(* The cache file.  Its content is JSON text; the model keeps what         *)
(* json.load makes of it:                                                  *)
(*   kind "missing"     no file (cache_file.exists() is False)             *)
(*   kind "unreadable"  the file exists and open() raises PermissionError  *)
(*   kind "invalid"     not valid JSON (also the empty file)               *)
(*   kind "number"      valid JSON, the top-level value a number           *)
(*   kind "list"        valid JSON, the top-level value the list []        *)
(*   kind "object"      a JSON object: data maps its keys to its entries   *)
(* An entry is a JSON value too: an object ("object") with its timestamp   *)
(* and jobs members, or another value ("other": a list, a number, null).   *)
(***************************************************************************)
FreshHours == 24

\* datetime.isoformat / datetime.fromisoformat
isoformat(t) == [tag |-> "iso", t |-> t]
AbsentTs == [tag |-> "absent", t |-> 0]     \* the entry has no "timestamp"
NotIsoTs == [tag |-> "notiso", t |-> 0]     \* a string that is no ISO-8601 time
NumberTs == [tag |-> "number", t |-> 0]     \* a JSON number

JobsList(jobs) == [tag |-> "list", list |-> jobs]
AbsentJobs == [tag |-> "absent", list |-> <<>>]   \* the entry has no "jobs"
NumberJobs == [tag |-> "number", list |-> <<>>]   \* "jobs" is a JSON number

Entry(ts, query, location, jobs) ==
    [kind |-> "object", timestamp |-> ts, query |-> query,
     location |-> location, jobs |-> jobs]
OtherEntry ==
    [kind |-> "other", timestamp |-> AbsentTs, query |-> <<>>,
     location |-> <<>>, jobs |-> AbsentJobs]

EmptyData == [k \in {} |-> OtherEntry]
FileOf(kind) == [kind |-> kind, data |-> EmptyData]
ObjectFile(data) == [kind |-> "object", data |-> data]

\* cache_data[cache_key] = {...}
SetItem(data, key, entry) ==
    [k \in (DOMAIN data) \cup {key} |-> IF k = key THEN entry ELSE data[k]]

\* Outcomes of a call.
None == [kind |-> "None", jobs |-> <<>>, exc |-> ""]
Return(jobs) == [kind |-> "jobs", jobs |-> jobs, exc |-> ""]
Raise(exc) == [kind |-> "raise", jobs |-> <<>>, exc |-> exc]

\* a variant of the freshness test that takes 24 hours for fresh
is_fresh_mut_le(now, t) == now - t <= FreshHours

\* time_diff < 24, time_diff the age in hours
is_fresh(now, t) == now - t < FreshHours

\* _load_from_cache(query, location), the file holding f at time now
load_from_cache(dir, f, query, location, now) ==
    IF ~dir \/ f.kind = "missing" THEN None
    ELSE IF f.kind = "unreadable" THEN Raise("PermissionError")
    ELSE IF f.kind = "invalid" THEN None                \* JSONDecodeError
    ELSE IF f.kind = "number" THEN Raise("TypeError")   \* `in` on a number
    ELSE IF f.kind = "list" THEN None                   \* key not in []
    ELSE LET key == cache_key(query, location)
         IN  IF key \notin DOMAIN f.data THEN None
             ELSE LET e == f.data[key]
                  IN  IF e.kind # "object" THEN Raise("TypeError")
                      ELSE IF e.timestamp.tag = "absent" THEN None   \* KeyError
                      ELSE IF e.timestamp.tag = "number" THEN Raise("TypeError")
                      ELSE IF e.timestamp.tag = "notiso" THEN None   \* ValueError
                      ELSE IF is_fresh(now, e.timestamp.t)
                           THEN IF e.jobs.tag = "absent" THEN None   \* KeyError
                                ELSE IF e.jobs.tag = "number"
                                     THEN Raise("TypeError")         \* len(5)
                                     ELSE Return(e.jobs.list)
                           ELSE None

\* What _save_to_cache starts from: cache_data after the load of the file.
\* ok is FALSE when the load, or the item assignment that follows, raises.
loaded_cache_data(f) ==
    IF f.kind \in {"missing", "invalid"} THEN [ok |-> TRUE, exc |-> "", data |-> EmptyData]
    ELSE IF f.kind = "unreadable" THEN [ok |-> FALSE, exc |-> "PermissionError", data |-> EmptyData]
    ELSE IF f.kind \in {"number", "list"} THEN [ok |-> FALSE, exc |-> "TypeError", data |-> EmptyData]
    ELSE [ok |-> TRUE, exc |-> "", data |-> f.data]

new_entry(jobs, query, location, now) ==
    Entry(isoformat(now), query, location, JobsList(jobs))

\* a variant of the update that appends to the jobs already stored
updated_data_mut_append(data, key, jobs, query, location, now) ==
    IF key \in DOMAIN data /\ data[key].kind = "object" /\ data[key].jobs.tag = "list"
    THEN SetItem(data, key, new_entry(data[key].jobs.list \o jobs, query, location, now))
    ELSE SetItem(data, key, new_entry(jobs, query, location, now))

updated_data(data, key, jobs, query, location, now) ==
    SetItem(data, key, new_entry(jobs, query, location, now))

\* _save_to_cache(jobs, query, location): the outcome and the file it leaves
save_to_cache(dir, f, jobs, query, location, now) ==
    IF ~dir THEN [out |-> None, file |-> f]
    ELSE LET ld == loaded_cache_data(f)
         IN  IF ~ld.ok THEN [out |-> Raise(ld.exc), file |-> f]
             ELSE [out |-> None,
                   file |-> ObjectFile(updated_data(ld.data, cache_key(query, location),
                                                    jobs, query, location, now))]

(***************************************************************************)
(* Inputs: (query, location) pairs and the job lists stored for them.      *)
(***************************************************************************)
Pair(q, l) == [query |-> q, location |-> l]
Pairs ==
    {Pair(<<"a", " ", "b">>, <<"c">>),          \* "a b", "c"
     Pair(<<"A", " ", "b">>, <<"C">>),          \* letter case
     Pair(<<"a", " ", " ", "b">>, <<"c">>),     \* two spaces
     Pair(<<"a", "\t", "b">>, <<"c">>),         \* a tab
     Pair(<<"a">>, <<"b", " ", "c">>),          \* split elsewhere
     Pair(<<"a", "_", "b">>, <<"c">>)}          \* an underscore
Keys == {cache_key(p.query, p.location) : p \in Pairs}

JobLists(query) ==
    {<<>>, <<extract_job(CardFull, query)>>}

\* what the cache file may hold when the program starts
TamperedEntries ==
    {OtherEntry,
     Entry(AbsentTs, <<"a">>, <<"c">>, JobsList(<<>>)),
     Entry(NotIsoTs, <<"a">>, <<"c">>, JobsList(<<>>)),
     Entry(NumberTs, <<"a">>, <<"c">>, JobsList(<<>>)),
     Entry(isoformat(0), <<"a">>, <<"c">>, AbsentJobs),
     Entry(isoformat(0), <<"a">>, <<"c">>, NumberJobs)}
InitFiles ==
    {FileOf(k) : k \in {"missing", "unreadable", "invalid", "number", "list"}}
    \cup {ObjectFile(EmptyData)}
    \cup {ObjectFile(SetItem(EmptyData, <<"a", "_", "b", "_", "c">>, e)) : e \in TamperedEntries}

NoOp == [name |-> "none", query |-> <<>>, location |-> <<>>, jobs |-> <<>>,
         time |-> 0, out |-> None, replaced |-> 0]
NoStore == [set |-> FALSE, query |-> <<>>, location |-> <<>>, jobs |-> <<>>, time |-> 0]
NoCall == [query |-> <<>>, location |-> <<>>, source |-> <<>>, num_pages |-> 0,
           page |-> 0, jobs |-> <<>>, events |-> <<>>, path |-> "", start |-> 0,
           writes |-> 0, saved |-> 0, out |-> None]

\* the variables a specification does not use keep these values
IdleCache == op = NoOp /\ stored = [k \in Keys |-> NoStore]
IdleCalls == pc = "idle" /\ call = NoCall /\ prev = NoCall /\ calls = 0
IdleCard == card = NoCard /\ job = NoJob
IdleProcs == procs = <<>> /\ disk = <<>>
IdleEnrich == enrich = <<>>
IdleMatcher == matcher = <<>>

(***************************************************************************)
(* SpecCache: the cache store on its own.  lookup is _load_from_cache,     *)
(* store is _save_to_cache, each called as a whole; time passes between.   *)
(***************************************************************************)
InitCache ==
    /\ cache_dir \in BOOLEAN
    /\ cache_file \in InitFiles
    /\ cache_dir = FALSE => cache_file = FileOf("missing")
    /\ clock = 0
    /\ IdleCache /\ IdleCalls /\ IdleCard /\ IdleProcs /\ IdleEnrich /\ IdleMatcher

Tick ==
    /\ pc = "idle"
    /\ clock + TickHours <= MaxClock
    /\ clock' = clock + TickHours
    /\ UNCHANGED <<cache_dir, cache_file, op, stored, pc, call, prev, calls,
                   card, job, procs, disk,
                   enrich, matcher>>

\* a variant that deletes the entry it finds stale
Lookup_mut_evict(p) ==
    LET key == cache_key(p.query, p.location)
        stale == /\ cache_dir /\ cache_file.kind = "object" /\ key \in DOMAIN cache_file.data
                 /\ cache_file.data[key].kind = "object"
                 /\ cache_file.data[key].timestamp.tag = "iso"
                 /\ ~is_fresh(clock, cache_file.data[key].timestamp.t)
    IN  /\ op' = [name |-> "lookup", query |-> p.query, location |-> p.location,
                  jobs |-> <<>>, time |-> clock, replaced |-> 0,
                  out |-> load_from_cache(cache_dir, cache_file, p.query, p.location, clock)]
        /\ cache_file' = IF stale
                         THEN ObjectFile([k \in DOMAIN cache_file.data \ {key} |->
                                             cache_file.data[k]])
                         ELSE cache_file
        /\ UNCHANGED <<cache_dir, clock, stored, pc, call, prev, calls,
                       card, job, procs, disk, enrich, matcher>>

Lookup(p) ==
    /\ op' = [name |-> "lookup", query |-> p.query, location |-> p.location,
              jobs |-> <<>>, time |-> clock, replaced |-> 0,
              out |-> load_from_cache(cache_dir, cache_file, p.query, p.location, clock)]
    /\ UNCHANGED <<cache_dir, cache_file, clock, stored, pc, call, prev, calls,
                   card, job, procs, disk,
                   enrich, matcher>>

Store(p, jobs) ==
    LET r == save_to_cache(cache_dir, cache_file, jobs, p.query, p.location, clock)
        key == cache_key(p.query, p.location)
    IN  /\ cache_file' = r.file
        /\ op' = [name |-> "store", query |-> p.query, location |-> p.location,
                  jobs |-> jobs, time |-> clock, out |-> r.out,
                  replaced |-> IF stored[key].set THEN 1 + Len(stored[key].jobs) ELSE 0]
        /\ stored' = IF cache_dir /\ r.out.kind = "None"
                     THEN [stored EXCEPT ![key] =
                              [set |-> TRUE, query |-> p.query, location |-> p.location,
                               jobs |-> jobs, time |-> clock]]
                     ELSE stored
        /\ UNCHANGED <<cache_dir, clock, pc, call, prev, calls, card, job, procs, disk,
                   enrich, matcher>>

NextCache ==
    \/ Tick
    \/ \E p \in Pairs : Lookup(p)
    \/ \E p \in Pairs : \E jobs \in JobLists(p.query) : Store(p, jobs)

SpecCache == InitCache /\ [][NextCache]_vars

(***************************************************************************)
(* Claims about the cache store (SpecCache).                               *)
(***************************************************************************)
WellFormed(e) ==
    e.kind = "object" /\ e.timestamp.tag = "iso" /\ e.jobs.tag = "list"

HasEntry(f, key) == f.kind = "object" /\ key \in DOMAIN f.data

OpKey == cache_key(op.query, op.location)

\* Text that differs only in letter case and in the amount or kind of
\* whitespace: equal once lowercased with each run of whitespace made one blank.
RECURSIVE CollapseWs(_)
CollapseWs(s) ==
    IF s = <<>> THEN <<>>
    ELSE IF Head(s) \in Whitespace
         THEN IF Len(s) > 1 /\ s[2] \in Whitespace
              THEN CollapseWs(Tail(s))
              ELSE <<" ">> \o CollapseWs(Tail(s))
         ELSE <<Head(s)>> \o CollapseWs(Tail(s))

SameUpToCaseAndWs(q1, l1, q2, l2) ==
    /\ CollapseWs(lower(q1)) = CollapseWs(lower(q2))
    /\ CollapseWs(lower(l1)) = CollapseWs(lower(l2))

SameUpToCase(q1, l1, q2, l2) == lower(q1) = lower(q2) /\ lower(l1) = lower(l2)

C4_MissExactlyWhenOlderThan24h ==
    (cache_dir /\ op.name = "lookup") =>
        /\ (cache_file.kind = "object" /\ ~HasEntry(cache_file, OpKey)) => op.out = None
        /\ (HasEntry(cache_file, OpKey) /\ WellFormed(cache_file.data[OpKey])) =>
              LET e == cache_file.data[OpKey]
              IN  IF op.time - e.timestamp.t > FreshHours
                  THEN op.out = None
                  ELSE op.out = Return(e.jobs.list)

\* C4 amended: lookup returns None when no entry exists for the key or the
\* entry is 24 hours old or older; a well-formed entry less than 24 hours old
\* is returned as a hit with its stored listings.
C4_MissWhenAtLeast24hOld ==
    (cache_dir /\ op.name = "lookup") =>
        /\ (cache_file.kind = "object" /\ ~HasEntry(cache_file, OpKey)) => op.out = None
        /\ (HasEntry(cache_file, OpKey) /\ WellFormed(cache_file.data[OpKey])) =>
              LET e == cache_file.data[OpKey]
              IN  IF op.time - e.timestamp.t >= FreshHours
                  THEN op.out = None
                  ELSE op.out = Return(e.jobs.list)

C4_Witness ==
    /\ cache_dir /\ op.name = "lookup" /\ op.out = None
    /\ HasEntry(cache_file, OpKey) /\ WellFormed(cache_file.data[OpKey])
    /\ cache_file.data[OpKey].jobs.list # <<>>
    /\ op.time - cache_file.data[OpKey].timestamp.t = FreshHours

\* C5 as stated: whatever the cache file holds, lookup raises nothing, and on
\* an unreadable file, invalid JSON or malformed content it returns None.
C5_LookupNeverRaises ==
    op.name = "lookup" =>
        /\ op.out.kind # "raise"
        /\ (\/ cache_file.kind \in {"unreadable", "invalid", "number", "list"}
            \/ (HasEntry(cache_file, OpKey) /\ ~WellFormed(cache_file.data[OpKey])))
           => op.out = None

\* C6: the entry of a key is exactly the entry of the last store for that key
\* (its timestamp, query, location and listings, nothing kept from the entry
\* it replaced), and a lookup within the freshness window returns exactly the
\* listings of that store.
C6_StoreReplacesEntry ==
    /\ \A k \in Keys :
          stored[k].set =>
             /\ HasEntry(cache_file, k)
             /\ cache_file.data[k] =
                   [kind |-> "object",
                    timestamp |-> [tag |-> "iso", t |-> stored[k].time],
                    query |-> stored[k].query, location |-> stored[k].location,
                    jobs |-> [tag |-> "list", list |-> stored[k].jobs]]
    /\ (op.name = "lookup" /\ stored[OpKey].set
        /\ op.time - stored[OpKey].time < FreshHours)
       => op.out = Return(stored[OpKey].jobs)

C6_Witness ==
    /\ op.name = "store" /\ op.out = None /\ op.replaced > 1
    /\ stored[OpKey].set /\ stored[OpKey].jobs = <<>>
    /\ stored[OpKey].query = op.query /\ stored[OpKey].time = op.time

(***************************************************************************)
(* Spec: retrieval.  scrape_jobs(query, location, source, num_pages) runs  *)
(* scrape_indeed: the cache lookup, then one request per page, each        *)
(* followed by the page sleep unless it raised, then the cache write.      *)
(***************************************************************************)
RetrievePairs ==
    {Pair(<<"a", " ", "b">>, <<"c">>),
     Pair(<<"a", " ", " ", "b">>, <<"c">>)}
Sources == {<<"I", "ndeed">>, <<"l", "inkedin">>}
NumPages == 0..MaxPages
PageSize == 10

\* What one page request can do: a 200 response with its job cards, another
\* status, or an exception (raised by requests.get, or while a later card of
\* the page is parsed, the jobs of the cards before it already appended).
PageExceptions == {"ConnectionError", "AttributeError"}
PageOutcomes ==
    {[status |-> "ok", cards |-> <<>>, exc |-> ""],
     [status |-> "ok", cards |-> <<CardFull>>, exc |-> ""],
     [status |-> "non200", cards |-> <<>>, exc |-> ""],
     [status |-> "exception", cards |-> <<>>, exc |-> "ConnectionError"],
     [status |-> "exception", cards |-> <<CardFull>>, exc |-> "AttributeError"]}

GetEvent(page, o, added) ==
    [type |-> "get", page |-> page, start |-> page * PageSize,
     status |-> o.status, added |-> added]
SleepEvent(page) ==
    [type |-> "sleep", page |-> page, start |-> 0, status |-> "", added |-> <<>>]

\* `if cached_jobs:`: None and the empty list are both falsy
truthy(r) == r.kind = "jobs" /\ r.jobs # <<>>

RetrieveInitFiles ==
    {FileOf("missing"), FileOf("number"), FileOf("list"),
     ObjectFile(SetItem(EmptyData, <<"a", "_", "b", "_", "c">>, OtherEntry))}

\* what is kept of a call once the next one starts
Summary(c) ==
    [NoCall EXCEPT !.query = c.query, !.location = c.location, !.source = c.source,
                   !.num_pages = c.num_pages, !.path = c.path, !.out = c.out,
                   !.writes = c.writes, !.saved = c.saved]

Init ==
    /\ cache_dir \in BOOLEAN
    /\ cache_file \in RetrieveInitFiles
    /\ cache_dir = FALSE => cache_file = FileOf("missing")
    /\ clock = 0
    /\ IdleCache /\ IdleCalls /\ IdleCard /\ IdleProcs /\ IdleEnrich /\ IdleMatcher

\* a variant that looks the cache up before it checks the source
ScrapeJobs_mut_lookupfirst(p, source, num_pages) ==
    /\ pc = "idle" /\ calls < MaxCalls
    /\ calls' = calls + 1
    /\ prev' = Summary(call)
    /\ LET c == [NoCall EXCEPT !.query = p.query, !.location = p.location,
                               !.source = source, !.num_pages = num_pages,
                               !.start = clock]
           cached == load_from_cache(cache_dir, cache_file, p.query, p.location, clock)
       IN  IF cached.kind = "raise"
           THEN /\ call' = [c EXCEPT !.out = cached, !.path = "lookup"]
                /\ pc' = "idle"
           ELSE IF lower(source) # <<"i", "ndeed">>
           THEN /\ call' = [c EXCEPT !.out = Raise("ValueError")]
                /\ pc' = "idle"
           ELSE IF truthy(cached)
           THEN /\ call' = [c EXCEPT !.out = cached, !.path = "hit"]
                /\ pc' = "idle"
           ELSE /\ call' = [c EXCEPT !.path = "miss"]
                /\ pc' = "page"
    /\ UNCHANGED <<cache_dir, cache_file, clock, op, stored, card, job, procs, disk,
                   enrich, matcher>>

\* scrape_jobs up to the start of the page loop
ScrapeJobs(p, source, num_pages) ==
    /\ pc = "idle" /\ calls < MaxCalls
    /\ calls' = calls + 1
    /\ prev' = Summary(call)
    /\ LET c == [NoCall EXCEPT !.query = p.query, !.location = p.location,
                               !.source = source, !.num_pages = num_pages,
                               !.start = clock]
           cached == load_from_cache(cache_dir, cache_file, p.query, p.location, clock)
       IN  IF lower(source) # <<"i", "ndeed">>
           THEN /\ call' = [c EXCEPT !.out = Raise("ValueError")]
                /\ pc' = "idle"
           ELSE IF cached.kind = "raise"
           THEN /\ call' = [c EXCEPT !.out = cached, !.path = "lookup"]
                /\ pc' = "idle"
           ELSE IF truthy(cached)
           THEN /\ call' = [c EXCEPT !.out = cached, !.path = "hit"]
                /\ pc' = "idle"
           ELSE /\ call' = [c EXCEPT !.path = "miss"]
                /\ pc' = "page"
    /\ UNCHANGED <<cache_dir, cache_file, clock, op, stored, card, job, procs, disk,
                   enrich, matcher>>

\* a variant in which a page's exception ends the call
FetchPage_mut_abort(o) ==
    /\ pc = "page" /\ call.page < call.num_pages
    /\ LET added == extract_jobs(o.cards, call.query)
           c == [call EXCEPT !.jobs = @ \o added,
                             !.events = Append(@, GetEvent(call.page, o, added))]
       IN  IF o.status = "exception"
           THEN /\ call' = [c EXCEPT !.out = Raise(o.exc)]
                /\ pc' = "idle"
           ELSE /\ call' = c
                /\ pc' = "sleep"
    /\ UNCHANGED <<cache_dir, cache_file, clock, op, stored, prev, calls,
                   card, job, procs, disk,
                   enrich, matcher>>

\* a variant that requests a page again when it raised
FetchPage_mut_retry(o) ==
    /\ pc = "page" /\ call.page < call.num_pages
    /\ Len(call.events) < 2 * MaxPages + 2
    /\ LET added == extract_jobs(o.cards, call.query)
           c == [call EXCEPT !.jobs = @ \o added,
                             !.events = Append(@, GetEvent(call.page, o, added))]
       IN  IF o.status = "exception"
           THEN /\ call' = c
                /\ pc' = "page"
           ELSE /\ call' = c
                /\ pc' = "sleep"
    /\ UNCHANGED <<cache_dir, cache_file, clock, op, stored, prev, calls,
                   card, job, procs, disk,
                   enrich, matcher>>

\* one iteration of `for page in range(num_pages)` up to the sleep
FetchPage(o) ==
    /\ pc = "page" /\ call.page < call.num_pages
    /\ LET added == extract_jobs(o.cards, call.query)
           c == [call EXCEPT !.jobs = @ \o added,
                             !.events = Append(@, GetEvent(call.page, o, added))]
       IN  IF o.status = "exception"
           THEN /\ call' = [c EXCEPT !.page = @ + 1]      \* except ...: continue
                /\ pc' = "page"
           ELSE /\ call' = c
                /\ pc' = "sleep"
    /\ UNCHANGED <<cache_dir, cache_file, clock, op, stored, prev, calls,
                   card, job, procs, disk,
                   enrich, matcher>>

\* self._random_sleep(self.page_sleep_range), then the next iteration
PageSleep ==
    /\ pc = "sleep"
    /\ call' = [call EXCEPT !.events = Append(@, SleepEvent(call.page)),
                            !.page = @ + 1]
    /\ pc' = "page"
    /\ UNCHANGED <<cache_dir, cache_file, clock, op, stored, prev, calls,
                   card, job, procs, disk,
                   enrich, matcher>>

\* a variant that writes the cache only when jobs were found
SaveAndReturn_mut_skipempty ==
    /\ pc = "page" /\ call.page >= call.num_pages
    /\ LET r == IF call.jobs = <<>> THEN [out |-> None, file |-> cache_file]
                ELSE save_to_cache(cache_dir, cache_file, call.jobs, call.query,
                                   call.location, clock)
       IN  /\ cache_file' = r.file
           /\ call' = [call EXCEPT
                         !.out = IF r.out.kind = "raise" THEN r.out ELSE Return(call.jobs),
                         !.writes = IF cache_dir /\ r.out.kind # "raise" /\ call.jobs # <<>>
                                    THEN @ + 1 ELSE @,
                         !.saved = clock]
    /\ pc' = "idle"
    /\ UNCHANGED <<cache_dir, clock, op, stored, prev, calls, card, job, procs, disk,
                   enrich, matcher>>

\* after the loop: self._save_to_cache(jobs, query, location); return jobs
SaveAndReturn ==
    /\ pc = "page" /\ call.page >= call.num_pages
    /\ LET r == save_to_cache(cache_dir, cache_file, call.jobs, call.query,
                              call.location, clock)
       IN  /\ cache_file' = r.file
           /\ call' = [call EXCEPT
                         !.out = IF r.out.kind = "raise" THEN r.out ELSE Return(call.jobs),
                         !.writes = IF cache_dir /\ r.out.kind # "raise" THEN @ + 1 ELSE @,
                         !.saved = clock]
    /\ pc' = "idle"
    /\ UNCHANGED <<cache_dir, clock, op, stored, prev, calls, card, job, procs, disk,
                   enrich, matcher>>

Next ==
    \/ Tick
    \/ \E p \in RetrievePairs : \E source \in Sources : \E n \in NumPages :
          ScrapeJobs(p, source, n)
    \/ \E o \in PageOutcomes : FetchPage(o)
    \/ PageSleep
    \/ SaveAndReturn

Spec == Init /\ [][Next]_vars

(***************************************************************************)
(* Claims about retrieval (Spec).                                          *)
(***************************************************************************)
Supported(c) == lower(c.source) = <<"i", "ndeed">>
Ended == pc = "idle" /\ calls >= 1
CallKey == cache_key(call.query, call.location)

GetEvents(c) == SelectSeq(c.events, LAMBDA e : e.type = "get")

RECURSIVE Gathered(_)
Gathered(events) ==
    IF events = <<>> THEN <<>> ELSE Head(events).added \o Gathered(Tail(events))

\* C1 as stated: of two consecutive calls for the same (query, location), the
\* second one starting within 24 hours of the first one's cache write, the
\* second is served from the cache: no request, and the listings the first
\* call stored are returned, also when the first call found no listing.
C1_SecondCallServedFromCache ==
    (/\ Ended /\ calls >= 2 /\ cache_dir
     /\ Supported(prev) /\ Supported(call)
     /\ prev.num_pages >= 1 /\ call.num_pages >= 1
     /\ prev.query = call.query /\ prev.location = call.location
     /\ prev.path = "miss" /\ prev.out.kind = "jobs" /\ prev.writes = 1
     /\ call.start - prev.saved < FreshHours)
    => /\ call.path = "hit"
       /\ GetEvents(call) = <<>>
       /\ call.out = Return(prev.out.jobs)

\* C2 as stated: a call that took the miss path ends with exactly one cache
\* write of the entry holding all the listings gathered, and returns them
\* without raising, also when no listing was found.
C2_MissPathWritesCacheOnce ==
    (Ended /\ cache_dir /\ call.path = "miss") =>
        /\ call.out = Return(call.jobs)
        /\ call.writes = 1
        /\ HasEntry(cache_file, CallKey)
        /\ cache_file.data[CallKey] =
              Entry(isoformat(call.saved), call.query, call.location, JobsList(call.jobs))

\* C8: a call on the miss path requests every page 0 .. num_pages-1 in turn
\* whatever the pages before did; what it returns is what its pages gathered;
\* an exception it ends with is none of a page (it is the cache write's).
C8_FailedPageIsSkipped ==
    (Ended /\ call.path = "miss") =>
        /\ [i \in 1..Len(GetEvents(call)) |-> GetEvents(call)[i].page]
              = [i \in 1..call.num_pages |-> i - 1]
        /\ call.jobs = Gathered(call.events)
        /\ call.out.kind = "jobs" => call.out.jobs = Gathered(call.events)
        /\ call.out.kind = "raise" =>
              (call.out.exc \notin PageExceptions /\ call.page = call.num_pages
               /\ call.writes = 0)

C8_Witness ==
    /\ Ended /\ call.path = "miss" /\ call.num_pages = 2
    /\ Len(GetEvents(call)) = 2
    /\ GetEvents(call)[1].status = "exception"
    /\ GetEvents(call)[2].status = "ok"
    /\ call.out.kind = "jobs" /\ call.out.jobs # <<>>

\* C10 as stated: a call with num_pages < 1 ends with a raised failure, and
\* writes nothing to the cache.
C10_InvalidPageCountRaises ==
    (Ended /\ Supported(call) /\ call.num_pages < 1) =>
        /\ call.out.kind = "raise"
        /\ call.writes = 0

\* C10 amended: a call with num_pages < 1 is not rejected.  It issues no
\* request and raises nothing for the page count; on the miss path it gathers
\* no listing, and when the cache write succeeds it has written an entry with
\* an empty listing array and returns the empty sequence, as a retrieval that
\* found no listing does.
C10_InvalidPageCountIsEmptyRetrieval ==
    (Ended /\ Supported(call) /\ call.num_pages < 1) =>
        /\ call.events = <<>>
        /\ call.out.kind = "raise" => call.out.exc # "ValueError"
        /\ call.path = "miss" =>
              /\ call.jobs = <<>>
              /\ call.out.kind = "jobs" =>
                    /\ call.out = Return(<<>>)
                    /\ cache_dir =>
                          /\ call.writes = 1
                          /\ HasEntry(cache_file, CallKey)
                          /\ cache_file.data[CallKey].jobs = JobsList(<<>>)

C10_Witness ==
    /\ Ended /\ Supported(call) /\ call.num_pages < 1 /\ cache_dir
    /\ call.path = "miss" /\ call.out = Return(<<>>) /\ call.writes = 1
    /\ HasEntry(cache_file, CallKey)
    /\ cache_file.data[CallKey].jobs = JobsList(<<>>)

(***************************************************************************)
(* SpecExtract: the extraction of one job card, for every card of Cards.   *)
(***************************************************************************)
InitExtract ==
    /\ cache_dir = TRUE /\ cache_file = FileOf("missing") /\ clock = 0
    /\ IdleCache /\ IdleProcs /\ IdleEnrich /\ IdleMatcher
    /\ call = NoCall /\ prev = NoCall /\ calls = 0
    /\ pc = "card"
    /\ card \in Cards
    /\ job = NoJob

\* the body of `for job_card in job_cards` up to jobs.append(job)
ExtractCard(query) ==
    /\ pc = "card"
    /\ job' = extract_job(card, query)
    /\ pc' = "appended"
    /\ UNCHANGED <<cache_dir, cache_file, clock, op, stored, call, prev, calls,
                   card, procs, disk,
                   enrich, matcher>>

NextExtract == \E p \in RetrievePairs : ExtractCard(p.query)

SpecExtract == InitExtract /\ [][NextExtract]_vars

\* whether some selector of the chain yields a non-empty (non-blank) value
YieldsValue(chain) ==
    \E i \in 1..Len(chain) :
        chain[i].found /\ strip(IF chain[i].span THEN chain[i].spantext
                                ELSE chain[i].text) # <<>>

\* C9 as stated: the title, company and location of every job dict appended
\* are non-empty, and a field for which no selector yields a non-empty value
\* holds its fixed default.
C9_FieldsNeverEmpty ==
    pc = "appended" =>
        /\ job.title # <<>> /\ job.company # <<>> /\ job.location # <<>>
        /\ ~YieldsValue(card.title) => job.title = DefaultTitle
        /\ ~YieldsValue(card.company) => job.company = DefaultCompany
        /\ ~YieldsValue(card.location) => job.location = DefaultLocation

(***************************************************************************)
(* SpecConc: two _save_to_cache calls and one _load_from_cache call run    *)
(* concurrently (threads or processes sharing the cache directory).  The   *)
(* code takes no lock.  A store reads the whole file (json.load), updates  *)
(* its own copy, opens the file with mode 'w' (which truncates it) and     *)
(* writes the serialized copy from offset 0, one buffer flush at a time.   *)
(* The file is the sequence of the chunks on disk; chunk i of the          *)
(* serialization of data d is [data |-> d, idx |-> i].                     *)
(***************************************************************************)
RECURSIVE JobCount(_, _)
JobCount(S, data) ==
    IF S = {} THEN 0
    ELSE LET k == CHOOSE x \in S : TRUE
         IN  1 + Len(data[k].jobs.list) + JobCount(S \ {k}, data)

\* number of chunks json.dump(data) is flushed in: it grows with the content
Size(data) == 1 + JobCount(DOMAIN data, data)

Chunk(data, i) == [data |-> data, idx |-> i]
Hole == [data |-> EmptyData, idx |-> 0]
Serialize(data) == [i \in 1..Size(data) |-> Chunk(data, i)]

\* write(chunk) at position pos of the file, the bytes around it kept
WriteAt(d, pos, chunk) ==
    [i \in 1..(IF pos > Len(d) THEN pos ELSE Len(d)) |->
        IF i = pos THEN chunk ELSE IF i <= Len(d) THEN d[i] ELSE Hole]

\* json.load of the bytes: the data when they are one complete serialization
DiskFile(d) ==
    IF d # <<>> /\ d = Serialize(d[1].data)
    THEN ObjectFile(d[1].data)
    ELSE FileOf("invalid")

Writers == {1, 2}
Reader == 3
ConcPairs == {Pair(<<"a", " ", "b">>, <<"c">>), Pair(<<"a", " ", " ", "b">>, <<"c">>)}
ConcInitData ==
    {EmptyData,
     SetItem(EmptyData, <<"x", "_", "y">>,
             new_entry(<<extract_job(CardFull, <<"x">>)>>, <<"x">>, <<"y">>, 0))}

Proc(kind, p, jobs) ==
    [kind |-> kind, pc |-> "start", query |-> p.query, location |-> p.location,
     jobs |-> jobs, data |-> EmptyData, off |-> 0, out |-> None, saw |-> ""]

InitConc ==
    /\ cache_dir = TRUE /\ clock = 0
    /\ IdleCache /\ IdleCalls /\ IdleCard /\ IdleEnrich /\ IdleMatcher
    /\ \E d \in ConcInitData : disk = Serialize(d)
    /\ cache_file = DiskFile(disk)
    /\ \E p1 \in ConcPairs, p2 \in ConcPairs, p3 \in ConcPairs :
       \E j1 \in JobLists(p1.query), j2 \in JobLists(p2.query) :
          procs = <<Proc("store", p1, j1), Proc("store", p2, j2), Proc("lookup", p3, <<>>)>>

\* lines 57-76: load the existing cache, set the entry of the key
StoreLoad(w) ==
    /\ procs[w].pc = "start"
    /\ LET ld == loaded_cache_data(DiskFile(disk))
           me == procs[w]
       IN  procs' = [procs EXCEPT ![w] =
                       [me EXCEPT !.pc = "loaded",
                                  !.data = updated_data(ld.data,
                                              cache_key(me.query, me.location),
                                              me.jobs, me.query, me.location, clock)]]
    /\ UNCHANGED <<cache_dir, cache_file, clock, op, stored, pc, call, prev, calls,
                   card, job, disk,
                   enrich, matcher>>

\* line 79: open(self.cache_file, 'w') truncates the file
StoreOpen(w) ==
    /\ procs[w].pc = "loaded"
    /\ disk' = <<>>
    /\ cache_file' = DiskFile(disk')
    /\ procs' = [procs EXCEPT ![w] = [@ EXCEPT !.pc = "writing", !.off = 0]]
    /\ UNCHANGED <<cache_dir, clock, op, stored, pc, call, prev, calls, card, job,
                   enrich, matcher>>

\* line 80: json.dump(cache_data, f), one flush
StoreWrite(w) ==
    /\ procs[w].pc = "writing" /\ procs[w].off < Size(procs[w].data)
    /\ disk' = WriteAt(disk, procs[w].off + 1, Chunk(procs[w].data, procs[w].off + 1))
    /\ cache_file' = DiskFile(disk')
    /\ procs' = [procs EXCEPT ![w] = [@ EXCEPT !.off = @ + 1]]
    /\ UNCHANGED <<cache_dir, clock, op, stored, pc, call, prev, calls, card, job,
                   enrich, matcher>>

\* the end of the with block: the file is closed, _save_to_cache returns
StoreClose(w) ==
    /\ procs[w].pc = "writing" /\ procs[w].off = Size(procs[w].data)
    /\ procs' = [procs EXCEPT ![w] = [@ EXCEPT !.pc = "done"]]
    /\ UNCHANGED <<cache_dir, cache_file, clock, op, stored, pc, call, prev, calls,
                   card, job, disk,
                   enrich, matcher>>

\* _load_from_cache: reads the file as it is at that moment
LookupRead ==
    /\ procs[Reader].pc = "start"
    /\ LET me == procs[Reader]
           f == DiskFile(disk)
       IN  procs' = [procs EXCEPT ![Reader] =
                       [me EXCEPT !.pc = "done",
                                  !.out = load_from_cache(cache_dir, f, me.query,
                                                          me.location, clock),
                                  !.saw = IF f.kind = "object" THEN "complete"
                                          ELSE "partial"]]
    /\ UNCHANGED <<cache_dir, cache_file, clock, op, stored, pc, call, prev, calls,
                   card, job, disk,
                   enrich, matcher>>

NextConc ==
    \/ \E w \in Writers : StoreLoad(w)
    \/ \E w \in Writers : StoreOpen(w)
    \/ \E w \in Writers : StoreWrite(w)
    \/ \E w \in Writers : StoreClose(w)
    \/ LookupRead

SpecConc == InitConc /\ [][NextConc]_vars

ProcKey(i) == cache_key(procs[i].query, procs[i].location)
ProcEntry(i) == new_entry(procs[i].jobs, procs[i].query, procs[i].location, clock)

\* C7 as stated: a concurrent lookup never reads a partially written file, and
\* once two stores for the same key have both returned, the file holds for
\* that key the complete entry of one of them.
C7_StoresAreSerialized ==
    /\ procs[Reader].pc = "done" => procs[Reader].saw = "complete"
    /\ (procs[1].pc = "done" /\ procs[2].pc = "done" /\ ProcKey(1) = ProcKey(2)) =>
          /\ HasEntry(cache_file, ProcKey(1))
          /\ cache_file.data[ProcKey(1)] \in {ProcEntry(1), ProcEntry(2)}

(***************************************************************************)
(* Further claims about retrieval (Spec).                                  *)
(***************************************************************************)
\* C11: a scrape_jobs call whose source is not 'indeed' (compared without
\* regard to case) ends at once with ValueError: no cache lookup, no request,
\* no sleep, no cache write, and the cache file is as it was before the call.
C11_UnsupportedSourceRaisesFirst ==
    [][(calls' = calls + 1 /\ ~Supported(call'))
       => /\ call'.out = Raise("ValueError")
          /\ pc' = "idle"
          /\ call'.path = "" /\ call'.events = <<>> /\ call'.writes = 0
          /\ call'.jobs = <<>>
          /\ cache_file' = cache_file]_vars

\* an unsupported source has been rejected although the cache file is one
\* whose lookup would have raised
C11_Witness ==
    /\ Ended /\ ~Supported(call) /\ call.out = Raise("ValueError")
    /\ cache_dir /\ cache_file = FileOf("number")

(***************************************************************************)
(* SpecEnrich: get_full_description(job) called again and again on one     *)
(* listing that scrape_indeed created.  The listing is updated in place.   *)
(***************************************************************************)
\* the listings: with a relative link, with an absolute link, without a link
EnrichCards ==
    {CardFull, CardBare,
     [CardBare EXCEPT !.link = <<NoLink, NoLink, Link(<<"http://x">>)>>]}
EnrichQuery == <<"a", " ", "b">>

\* What the request of one call can do: raise, answer with another status,
\* answer 200 with a page on which no description selector matches, or with
\* a page whose description element has the given text.
EnrichOutcomes ==
    {[status |-> "exception", elem |-> NoElem],
     [status |-> "non200", elem |-> NoElem],
     [status |-> "ok", elem |-> NoElem],
     [status |-> "ok", elem |-> Elem(<<" ">>)],
     [status |-> "ok", elem |-> Elem(<<" ", "Desc", " ">>)],
     [status |-> "ok", elem |-> Elem(<<"Other">>)]}

ReturnJob(j) == [kind |-> "job", job |-> j]
NoFetch == [status |-> "", elem |-> NoElem]
NoEnrich == [calls |-> 0, gets |-> <<>>, sleeps |-> 0, before |-> NoJob,
             outcome |-> NoFetch, out |-> None]

InitEnrich ==
    /\ cache_dir = TRUE /\ cache_file = FileOf("missing") /\ clock = 0
    /\ IdleCache /\ IdleCalls /\ IdleProcs /\ IdleMatcher
    /\ card \in EnrichCards
    /\ job = extract_job(card, EnrichQuery)
    /\ enrich = NoEnrich

\* a variant that requests the page whenever the listing has a URL
skip_fetch_mut_nodesc(j) == j.url = <<>>

\* line 249: nothing to do when the description is there or the URL is missing
skip_fetch(j) == j.full_description # <<>> \/ j.url = <<>>

\* lines 255-264: the listing after the response
described(j, o) ==
    IF o.status = "ok" /\ o.elem.found
    THEN [j EXCEPT !.full_description = strip(o.elem.text)]
    ELSE j

\* a variant without the try/except around the request
GetFullDescription_mut_notry(o) ==
    /\ enrich.calls < MaxEnrich
    /\ IF skip_fetch(job)
       THEN /\ job' = job
            /\ enrich' = [enrich EXCEPT !.calls = @ + 1, !.before = job,
                                        !.outcome = NoFetch, !.out = ReturnJob(job)]
       ELSE /\ job' = described(job, o)
            /\ enrich' = [enrich EXCEPT
                            !.calls = @ + 1, !.before = job,
                            !.gets = Append(@, job.url),
                            !.sleeps = IF o.status = "ok" THEN @ + 1 ELSE @,
                            !.outcome = o,
                            !.out = IF o.status = "exception"
                                    THEN Raise("ConnectionError")
                                    ELSE ReturnJob(job')]
    /\ UNCHANGED <<cache_dir, cache_file, clock, op, stored, pc, call, prev, calls,
                   card, procs, disk, matcher>>

\* get_full_description(job), the request doing o
GetFullDescription(o) ==
    /\ enrich.calls < MaxEnrich
    /\ IF skip_fetch(job)
       THEN /\ job' = job
            /\ enrich' = [enrich EXCEPT !.calls = @ + 1, !.before = job,
                                        !.outcome = NoFetch, !.out = ReturnJob(job)]
       ELSE /\ job' = described(job, o)
            /\ enrich' = [enrich EXCEPT
                            !.calls = @ + 1, !.before = job,
                            !.gets = Append(@, job.url),
                            !.sleeps = IF o.status = "ok" THEN @ + 1 ELSE @,
                            !.outcome = o,
                            !.out = ReturnJob(job')]
    /\ UNCHANGED <<cache_dir, cache_file, clock, op, stored, pc, call, prev, calls,
                   card, procs, disk, matcher>>

NextEnrich == \E o \in EnrichOutcomes : GetFullDescription(o)

SpecEnrich == InitEnrich /\ [][NextEnrich]_vars

\* C12: a listing that scrape_indeed created has an empty full_description
\* until a get_full_description call populates it, and from then on every
\* get_full_description call requests nothing and leaves the listing as it is.
C12_DescriptionSetOnce ==
    /\ [](enrich.calls = 0 => job.full_description = <<>>)
    /\ [][job.full_description # <<>>
          => /\ job' = job
             /\ enrich'.gets = enrich.gets
             /\ enrich'.out = ReturnJob(job)]_vars

\* a call was made on a listing already populated, after a populating call
C12_Witness ==
    /\ enrich.calls >= 2
    /\ enrich.before.full_description # <<>>
    /\ Len(enrich.gets) >= 1
    /\ job = enrich.before

\* C13: a get_full_description call on a listing with an empty
\* full_description makes at most one request, to the listing's own URL; when
\* that request raises, answers another status than 200, or its page has no
\* description element, the call raises nothing and returns the listing
\* unchanged, full_description still empty.
C13_FailedEnrichIsSilent ==
    [][(enrich'.calls = enrich.calls + 1 /\ job.full_description = <<>>)
       => /\ \/ enrich'.gets = enrich.gets
             \/ enrich'.gets = Append(enrich.gets, job.url)
          /\ (\/ enrich'.outcome.status \in {"exception", "non200"}
              \/ (enrich'.outcome.status = "ok" /\ ~enrich'.outcome.elem.found))
             => /\ enrich'.out = ReturnJob(job)
                /\ job' = job
                /\ job'.full_description = <<>>]_vars

\* a call whose request raised has returned the listing, still not described
C13_Witness ==
    /\ enrich.calls >= 1
    /\ enrich.outcome.status = "exception"
    /\ Len(enrich.gets) >= 1
    /\ enrich.out = ReturnJob(job) /\ job.full_description = <<>>

(***************************************************************************)
(* job_matcher/utils/job_matcher.py (class JobMatcher).  A score is a      *)
(* float in the code; the model keeps it in hundredths (Scale), the        *)
(* weighted sum in ten-thousandths, so that sums and comparisons are       *)
(* exact.  An embedding is a vector of two integers of length 5, which     *)
(* makes every cosine a whole number of hundredths.                        *)
(***************************************************************************)
Scale == 100

RECURSIVE join(_, _)
join(list, sep) ==
    IF list = <<>> THEN <<>>
    ELSE IF Len(list) = 1 THEN list[1]
    ELSE list[1] \o sep \o join(Tail(list), sep)

\* self.model.encode(text): the loaded sentence-transformer model, standing
\* as a fixed table from what a text starts with to its embedding
encode(text) ==
    LET w == Head(text)
    IN  CASE w \in {"python", "Skills:"} -> <<5, 0>>
          [] w \in {"dev", "Name:"} -> <<4, 3>>
          [] w \in {"bsc", "Experience:"} -> <<3, 4>>
          [] w \in {"remote", "Education:"} -> <<0, 5>>
          [] w \in {"java", "Location:"} -> <<-5, 0>>
          [] OTHER -> <<0, -5>>

dot(u, v) == u[1] * v[1] + u[2] * v[2]
norm(v) == CHOOSE n \in 0..(dot(v, v)) : n * n = dot(v, v)

\* np.dot(e1, e2) / (np.linalg.norm(e1) * np.linalg.norm(e2)), in hundredths
cosine(e1, e2) == (dot(e1, e2) * Scale) \div (norm(e1) * norm(e2))

\* a variant that encodes whatever the texts are
calculate_similarity_mut_always(text1, text2) ==
    LET t1 == IF text1 = <<>> THEN <<"">> ELSE text1
        t2 == IF text2 = <<>> THEN <<"">> ELSE text2
    IN  [value |-> cosine(encode(t1), encode(t2)), encoded |-> <<text1, text2>>]

\* calculate_similarity: the value returned and the texts given to encode
calculate_similarity(text1, text2) ==
    IF text1 = <<>> \/ text2 = <<>>
    THEN [value |-> 0, encoded |-> <<>>]
    ELSE [value |-> cosine(encode(text1), encode(text2)),
          encoded |-> <<text1, text2>>]

weights ==
    [skills |-> 35, experience |-> 30, education |-> 15, location |-> 10, title |-> 10]
Components == <<"skills", "experience", "education", "location", "title">>

reason_templates ==
    [skills |-> "Skills match: ", experience |-> "Experience relevance: ",
     education |-> "Education match: ", location |-> "Location match: ",
     title |-> "Job title match: ", overall |-> "Overall match score: "]

\* a variant whose thresholds are not strict
reason_quality_mut_ge(s) ==
    IF s >= (8 * Scale) \div 10 THEN "excellent"
    ELSE IF s >= (6 * Scale) \div 10 THEN "strong"
    ELSE IF s >= (4 * Scale) \div 10 THEN "good"
    ELSE IF s >= (2 * Scale) \div 10 THEN "moderate"
    ELSE "limited"

\* "excellent" if s > 0.8 else "strong" if s > 0.6 else ...
reason_quality(s) ==
    IF s > (8 * Scale) \div 10 THEN "excellent"
    ELSE IF s > (6 * Scale) \div 10 THEN "strong"
    ELSE IF s > (4 * Scale) \div 10 THEN "good"
    ELSE IF s > (2 * Scale) \div 10 THEN "moderate"
    ELSE "limited"

preprocess_resume(resume_data) ==
    LET skills_text == join(resume_data.skills, <<",", " ">>)
        experience_text == join(resume_data.experience, <<" ">>)
        education_text == join(resume_data.degrees, <<" ">>)
        location == resume_data.location_preference
        part(label, t) == IF t = <<>> THEN <<>> ELSE <<<<label, " ">> \o t>>
        full_profile == part("Name:", resume_data.name)
                        \o part("Skills:", skills_text)
                        \o part("Experience:", experience_text)
                        \o part("Education:", education_text)
                        \o part("Location:", location)
    IN  [skills_text |-> skills_text, experience_text |-> experience_text,
         education_text |-> education_text, location |-> location,
         full_profile |-> join(full_profile, <<" ">>)]

preprocess_job(j) ==
    LET description == IF j.full_description # <<>> THEN j.full_description
                       ELSE j.snippet
    IN  [title |-> j.title, location |-> j.location, description |-> description,
         company |-> j.company,
         full_text |-> <<"Title:", " ">> \o j.title \o <<" ", "Company:", " ">>
                       \o j.company \o <<" ", "Location:", " ">> \o j.location
                       \o <<" ", "Description:", " ">> \o description]

NeutralLocation == Scale \div 2
NotCalled == [value |-> NeutralLocation, encoded |-> <<>>]

\* a variant that scores the location like the other components
location_similarity_mut_noneutral(r, j) == calculate_similarity(r.location, j.location)

\* lines 206-212
location_similarity(r, j) ==
    IF r.location # <<>> /\ j.location # <<>>
    THEN calculate_similarity(r.location, j.location)
    ELSE NotCalled

\* the five calculate_similarity results of match_job_to_resume
similarities(r, j) ==
    [skills |-> calculate_similarity(r.skills_text, j.description),
     experience |-> calculate_similarity(r.experience_text, j.description),
     education |-> calculate_similarity(r.education_text, j.description),
     location |-> location_similarity(r, j),
     title |-> calculate_similarity(r.full_profile, j.title)]

RECURSIVE weighted_sum(_, _)
weighted_sum(scores, ks) ==
    IF ks = <<>> THEN 0
    ELSE scores[Head(ks)] * weights[Head(ks)] + weighted_sum(scores, Tail(ks))

\* a variant that leaves the title out of the sum
overall_score_mut_notitle(scores) == weighted_sum(scores, SubSeq(Components, 1, 4))

\* sum(scores[k] * self.weights[k] for k in self.weights), in ten-thousandths
overall_score(scores) == weighted_sum(scores, Components)

\* `sub in text` for two strings
contains(text, sub) ==
    \E i \in 0..(Len(text) - Len(sub)) : SubSeq(text, i + 1, i + Len(sub)) = sub

\* lines 242-246: the skills of the resume found in the job's description
matching_skills(resume_data, description) ==
    LET job_desc_lower == lower(description)
    IN  SelectSeq(resume_data.skills, LAMBDA skill : contains(job_desc_lower, lower(skill)))

\* match_job_to_resume; idx is the place of the job in the input list, sims
\* the texts each component compared and those it had encoded
match_job_to_resume(resume_data, j, idx) ==
    LET r == preprocess_resume(resume_data)
        pj == preprocess_job(j)
        sims == similarities(r, pj)
        scores == [k \in DOMAIN sims |-> sims[k].value]
    IN  [job |-> j, idx |-> idx,
         match_score |-> overall_score(scores),
         component_scores |-> scores,
         match_reasons |->
             [k \in DOMAIN reason_templates |->
                 IF k = "overall" THEN <<reason_templates[k], overall_score(scores)>>
                 ELSE <<reason_templates[k], reason_quality(scores[k])>>],
         given |-> [skills |-> <<r.skills_text, pj.description>>,
                    experience |-> <<r.experience_text, pj.description>>,
                    education |-> <<r.education_text, pj.description>>,
                    location |-> <<r.location, pj.location>>,
                    title |-> <<r.full_profile, pj.title>>],
         encoded |-> [k \in DOMAIN sims |-> sims[k].encoded],
         matching_skills |-> matching_skills(resume_data, pj.description)]

\* sorted(job_matches, key=lambda x: x['match_score'], reverse=True): the
\* sort is stable, reverse=True keeps equal keys in their original order
RECURSIVE insert_mut_tiesfirst(_, _)
insert_mut_tiesfirst(s, x) ==
    IF s = <<>> THEN <<x>>
    ELSE IF Head(s).match_score > x.match_score
         THEN <<Head(s)>> \o insert_mut_tiesfirst(Tail(s), x)
         ELSE <<x>> \o s

RECURSIVE insert(_, _)
insert(s, x) ==
    IF s = <<>> THEN <<x>>
    ELSE IF Head(s).match_score >= x.match_score
         THEN <<Head(s)>> \o insert(Tail(s), x)
         ELSE <<x>> \o s

RECURSIVE sorted_desc(_)
sorted_desc(ms) ==
    IF ms = <<>> THEN <<>>
    ELSE insert(sorted_desc(SubSeq(ms, 1, Len(ms) - 1)), ms[Len(ms)])

job_matches(resume_data, jobs) ==
    [i \in 1..Len(jobs) |-> match_job_to_resume(resume_data, jobs[i], i)]

rank_jobs_for_resume(resume_data, jobs) == sorted_desc(job_matches(resume_data, jobs))

(***************************************************************************)
(* SpecMatch: rank_jobs_for_resume(resume_data, jobs) called up to MaxRank *)
(* times on the same resume and the same list of jobs.                     *)
(***************************************************************************)
Resumes ==
    [name : {<<>>, <<"ann">>},
     skills : {<<>>, <<<<"python">>>>, <<<<"java">>, <<"python">>>>,
               <<<<"C">>, <<"python">>, <<"C">>>>},
     experience : {<<>>, <<<<"dev">>>>},
     degrees : {<<>>, <<<<"bsc">>>>},
     location_preference : {<<>>, <<"remote">>}]

Listing(title, company, location, snippet, full) ==
    [NoJob EXCEPT !.title = title, !.company = company, !.location = location,
                  !.snippet = snippet, !.full_description = full,
                  !.query = <<"dev">>]

MatchJobs ==
    {Listing(<<"dev">>, <<"Acme">>, <<"remote">>, <<"python", " ", "dev">>, <<>>),
     Listing(<<"dev">>, <<"Other">>, <<"remote">>, <<"python", " ", "dev">>, <<>>),
     Listing(<<>>, <<>>, <<>>, <<>>, <<>>),
     Listing(<<"java">>, <<"Acme">>, <<"onsite">>, <<"java">>, <<"dev", " ", "java">>),
     Listing(<<"python">>, <<"Acme">>, <<"remote">>, <<"bsc">>, <<>>),
     Listing(<<"dev">>, <<"Acme">>, <<>>, <<"python">>, <<"C", " ", "java", "script">>)}

RECURSIVE JobListsUpTo(_)
JobListsUpTo(n) ==
    IF n = 0 THEN {<<>>}
    ELSE LET shorter == JobListsUpTo(n - 1)
         IN  shorter \cup {Append(l, j) : l \in {s \in shorter : Len(s) = n - 1},
                                          j \in MatchJobs}

NoMatcher == [resume_data |-> <<>>, jobs |-> <<>>, calls |-> 0, ranked |-> <<>>]

InitMatch ==
    /\ cache_dir = TRUE /\ cache_file = FileOf("missing") /\ clock = 0
    /\ IdleCache /\ IdleCalls /\ IdleCard /\ IdleProcs /\ IdleEnrich
    /\ \E r \in Resumes, l \in JobListsUpTo(MaxJobs) :
          matcher = [NoMatcher EXCEPT !.resume_data = r, !.jobs = l]

\* a variant that sorts the list it was given in place, by the scores
RankJobs_mut_inplace ==
    /\ matcher.calls < MaxRank
    /\ LET ranked == rank_jobs_for_resume(matcher.resume_data, matcher.jobs)
       IN  matcher' = [matcher EXCEPT !.calls = @ + 1, !.ranked = ranked,
                                      !.jobs = [i \in 1..Len(ranked) |-> ranked[i].job]]
    /\ UNCHANGED <<cache_dir, cache_file, clock, op, stored, pc, call, prev, calls,
                   card, job, procs, disk, enrich>>

\* rank_jobs_for_resume(resume_data, jobs): nothing is assigned to its arguments
RankJobs ==
    /\ matcher.calls < MaxRank
    /\ matcher' = [matcher EXCEPT
                     !.calls = @ + 1,
                     !.ranked = rank_jobs_for_resume(matcher.resume_data, matcher.jobs)]
    /\ UNCHANGED <<cache_dir, cache_file, clock, op, stored, pc, call, prev, calls,
                   card, job, procs, disk, enrich>>

NextMatch == RankJobs

SpecMatch == InitMatch /\ [][NextMatch]_vars

(***************************************************************************)
(* Claims about matching and ranking (SpecMatch).                          *)
(***************************************************************************)
Ranked == matcher.calls >= 1
Matches == {matcher.ranked[i] : i \in 1..Len(matcher.ranked)}
ComponentSet == {Components[i] : i \in 1..Len(Components)}
\* the components whose score always comes from calculate_similarity
AlwaysCompared == ComponentSet \ {"location"}
EitherEmpty(pair) == pair[1] = <<>> \/ pair[2] = <<>>

\* C14: calculate_similarity returns exactly 0.0 when either text is empty,
\* and then no text is given to the embedding model.
C14_EmptyTextScoresZero ==
    \A x \in Matches : \A k \in AlwaysCompared :
        EitherEmpty(x.given[k]) =>
            /\ x.component_scores[k] = 0
            /\ x.encoded[k] = <<>>

\* a record in which a comparison with an empty text scored 0 without the
\* model, next to a comparison that did use the model
C14_Witness ==
    /\ Ranked
    /\ \E x \in Matches :
          /\ x.given["skills"][1] = <<>> /\ x.given["skills"][2] # <<>>
          /\ x.component_scores["skills"] = 0 /\ x.encoded["skills"] = <<>>
          /\ x.encoded["title"] # <<>>

\* C15 as stated: every component score of every match record lies in
\* [0.0, 1.0], a cosine below 0 being clipped to 0.
C15_ScoresWithinUnitRange ==
    \A x \in Matches : \A k \in ComponentSet :
        x.component_scores[k] >= 0 /\ x.component_scores[k] <= Scale

\* C16: rank_jobs_for_resume returns one record per job of the input list,
\* by match_score descending, records of equal match_score in the order their
\* jobs have in the input list.
C16_RankIsStableDescending ==
    Ranked =>
        LET out == matcher.ranked
            n == Len(matcher.jobs)
        IN  /\ Len(out) = n
            /\ {out[i].idx : i \in 1..n} = 1..n
            /\ \A i \in 1..n : out[i].job = matcher.jobs[out[i].idx]
            /\ \A i, j \in 1..n :
                  i < j => /\ out[i].match_score >= out[j].match_score
                           /\ out[i].match_score = out[j].match_score
                              => out[i].idx < out[j].idx

\* two different jobs of equal score have been ranked
C16_Witness ==
    /\ Ranked /\ Len(matcher.ranked) = 2
    /\ matcher.ranked[1].match_score = matcher.ranked[2].match_score
    /\ matcher.ranked[1].job # matcher.ranked[2].job
    /\ matcher.ranked[1].match_score > 0

C18_AggregateIsWeightedSum ==
    /\ 35 + 30 + 15 + 10 + 10 = Scale
    /\ weights["skills"] + weights["experience"] + weights["education"]
         + weights["location"] + weights["title"] = Scale
    /\ \A x \in Matches :
          LET s == x.component_scores
          IN  /\ x.match_score = 35 * s["skills"] + 30 * s["experience"]
                                   + 15 * s["education"] + 10 * s["location"]
                                   + 10 * s["title"]
              /\ (\A k \in ComponentSet : s[k] >= 0 /\ s[k] <= Scale)
                 => x.match_score >= 0 /\ x.match_score <= Scale * Scale

\* a record whose five scores are all above 0 and within [0, 1]
C18_Witness ==
    /\ Ranked
    /\ \E x \in Matches :
          \A k \in ComponentSet :
              x.component_scores[k] > 0 /\ x.component_scores[k] <= Scale

\* C19: when the resume's location preference or the job's location is
\* empty the location score is exactly 0.5, nothing is encoded for it and
\* its reason reads "good"; otherwise the score is the similarity of the two.
C19_EmptyLocationIsNeutral ==
    \A x \in Matches :
        IF EitherEmpty(x.given["location"])
        THEN /\ 2 * x.component_scores["location"] = Scale
             /\ x.encoded["location"] = <<>>
             /\ x.match_reasons["location"] = <<"Location match: ", "good">>
        ELSE /\ x.component_scores["location"]
                  = cosine(encode(x.given["location"][1]),
                           encode(x.given["location"][2]))
             /\ x.encoded["location"] = x.given["location"]

\* a record for a resume without location preference and a job with a location
C19_Witness ==
    /\ Ranked
    /\ \E x \in Matches :
          /\ x.given["location"][1] = <<>> /\ x.given["location"][2] # <<>>
          /\ x.match_reasons["location"][2] = "good"

\* C20: the reason of each of the five components reads the band of that
\* component's own score: above 0.8 excellent, else above 0.6 strong, else
\* above 0.4 good, else above 0.2 moderate, else limited.
C20_ReasonIsBandOfOwnScore ==
    \A x \in Matches : \A k \in ComponentSet :
        LET s == x.component_scores[k]
            q == x.match_reasons[k][2]
        IN  /\ q = "excellent" <=> 10 * s > 8 * Scale
            /\ q = "strong" <=> (10 * s <= 8 * Scale /\ 10 * s > 6 * Scale)
            /\ q = "good" <=> (10 * s <= 6 * Scale /\ 10 * s > 4 * Scale)
            /\ q = "moderate" <=> (10 * s <= 4 * Scale /\ 10 * s > 2 * Scale)
            /\ q = "limited" <=> 10 * s <= 2 * Scale

\* a record with a score exactly on the 0.8 threshold reading "strong", next
\* to components in other bands
C20_Witness ==
    /\ Ranked
    /\ \E x \in Matches :
          /\ 10 * x.component_scores["skills"] = 8 * Scale
          /\ x.match_reasons["skills"] = <<"Skills match: ", "strong">>
          /\ \E k \in ComponentSet : x.match_reasons[k][2] = "excellent"
          /\ \E k \in ComponentSet : x.match_reasons[k][2] = "limited"

\* the first occurrence of each element of a sequence, in order
RECURSIVE Dedup(_)
Dedup(s) ==
    IF s = <<>> THEN <<>>
    ELSE LET front == SubSeq(s, 1, Len(s) - 1)
             rest == Dedup(front)
         IN  IF \E i \in 1..Len(front) : front[i] = s[Len(s)]
             THEN rest ELSE Append(rest, s[Len(s)])

\* the description the record was computed from
DescriptionOf(x) ==
    IF x.job.full_description # <<>> THEN x.job.full_description ELSE x.job.snippet

\* C21 as stated: matching_skills is the resume's skills whose lowercased form
\* occurs in the lowercased description (full description if non-empty, else
\* snippet), in the resume's order, each skill once.
C21_MatchingSkillsWithoutDuplicates ==
    \A x \in Matches :
        x.matching_skills =
            Dedup(SelectSeq(matcher.resume_data.skills,
                            LAMBDA skill : contains(lower(DescriptionOf(x)), lower(skill))))

(***************************************************************************)
(* Claims about the page loop of retrieval (Spec).                         *)
(***************************************************************************)
\* C22 as stated: on the miss path every page request is followed by the
\* page sleep before the next page is requested, whatever the request did, so
\* no two requests follow each other without a sleep between them.
C22_SleepAfterEveryPage ==
    \A i \in 1..(Len(call.events) - 1) :
        call.events[i].type = "get" => call.events[i + 1].type = "sleep"

\* SpecLive: retrieval with the call in progress always taking its next step
\* (the interpreter runs the loop on; a request returns or raises).
SpecLive ==
    Spec /\ WF_vars((\E o \in PageOutcomes : FetchPage(o)) \/ PageSleep \/ SaveAndReturn)

\* C23: within one call each page index 0..num_pages-1 is requested at most
\* once, in ascending order and with start = 10 * index, failed pages
\* included, so at most num_pages requests are made; and the call ends.
C23_NoPageIsRetried ==
    /\ [](LET gets == GetEvents(call)
          IN  /\ Len(gets) <= call.num_pages
              /\ \A i \in 1..Len(gets) :
                    gets[i].page = i - 1 /\ gets[i].start = 10 * (i - 1)
              /\ (pc # "idle" /\ gets # <<>>)
                    => call.page \in {Len(gets) - 1, Len(gets)}
              /\ (pc = "page" /\ gets # <<>> /\ gets[Len(gets)].status = "exception")
                    => call.page = Len(gets))
    /\ (pc # "idle") ~> (pc = "idle")

\* a call of two pages has ended, its first page having failed
C23_Witness ==
    /\ Ended /\ call.path = "miss" /\ call.num_pages = 2
    /\ Len(GetEvents(call)) = 2
    /\ GetEvents(call)[1].status = "exception"
    /\ GetEvents(call)[2].status = "ok"

(***************************************************************************)
(* Further claims about the cache store (SpecCache, SpecConc, Spec).       *)
(***************************************************************************)
\* C24: a lookup never changes the cache file: an entry older than 24 hours
\* is reported as a miss and stays in the file as it is, with every other
\* entry.
C24_LookupLeavesFileUnchanged ==
    [][op'.name = "lookup" => cache_file' = cache_file]_vars

\* a lookup has missed on an entry that a store wrote more than 24 hours
\* before, and the entry is still in the file
C24_Witness ==
    /\ cache_dir /\ op.name = "lookup" /\ op.out = None
    /\ stored[OpKey].set
    /\ HasEntry(cache_file, OpKey) /\ WellFormed(cache_file.data[OpKey])
    /\ cache_file.data[OpKey].jobs.list = stored[OpKey].jobs
    /\ stored[OpKey].jobs # <<>>
    /\ op.time - cache_file.data[OpKey].timestamp.t > FreshHours

\* C25 as stated: a lookup that hits returns the listings of an entry stored
\* for the same (query, location) pair up to letter case and whitespace; pairs
\* that split the text differently between query and location, or that have an
\* underscore where the other has a space, do not share an entry.
C25_HitOnlyForTheSamePair ==
    (/\ cache_dir /\ op.name = "lookup" /\ op.out.kind = "jobs"
     /\ HasEntry(cache_file, OpKey) /\ WellFormed(cache_file.data[OpKey]))
    => SameUpToCaseAndWs(op.query, op.location,
                         cache_file.data[OpKey].query, cache_file.data[OpKey].location)

\* C26 as stated: when two stores for different keys have both returned,
\* whatever the interleaving of their steps, the file holds the new entry of
\* each, and every entry of another key that a store had loaded.
C26_NoLostUpdate ==
    (procs[1].pc = "done" /\ procs[2].pc = "done" /\ ProcKey(1) # ProcKey(2))
    => /\ \A w \in Writers :
             /\ HasEntry(cache_file, ProcKey(w))
             /\ cache_file.data[ProcKey(w)] = ProcEntry(w)
       /\ \A w \in Writers : \A k \in DOMAIN procs[w].data :
             k \notin {ProcKey(1), ProcKey(2)}
             => /\ HasEntry(cache_file, k)
                /\ cache_file.data[k] = procs[w].data[k]

\* C27 as stated: when the cache file is missing, empty, not valid JSON, or
\* valid JSON that is not an object, the cache write that ends a miss-path
\* call starts from an empty mapping: the file then holds the new entry alone
\* and the call returns the listings it gathered, raising nothing.
C27_WriteStartsFromEmptyMapping ==
    [][(pc = "page" /\ pc' = "idle" /\ cache_dir /\ cache_file.kind # "object")
       => /\ call'.out = Return(call.jobs)
          /\ cache_file' = ObjectFile(SetItem(EmptyData, CallKey,
                                              new_entry(call.jobs, call.query,
                                                        call.location, clock)))]_vars

====
